---- MODULE Spec2Model ----
(***************************************************************************)
(* A model of src/bot.py: the strategy loop of an XAUUSD trading bot.      *)
(*                                                                         *)
(* Units.  Prices, ATR, tick size and point size are integers in one price *)
(* unit.  Lots are integers in thousandths of a lot, so that "2 decimals"  *)
(* is a multiple of 10.  A float that pandas or numpy leaves undefined is  *)
(* NaN, a float division by zero that numpy does not raise on is INF.      *)
(***************************************************************************)
EXTENDS Integers, Sequences, FiniteSets, TLC

VARIABLES
    pc,          \* position of the caller: "manage", "signal", "trade", "sleep" in the
                 \* main loop; "signal", "positions", "lot" and their "_done" in single calls
    positions,   \* the platform's open positions of SYMBOL, by ticket
    mp,          \* locals of the running/last manage_positions call
    requests,    \* TRADE_ACTION_SLTP requests sent by that call, in order
    gs,          \* locals of the last get_signal call
    direction,   \* get_signal's first result
    current_atr, \* get_signal's second result
    et,          \* locals of the last execute_trade call
    orders,      \* TRADE_ACTION_DEAL requests sent by that call
    raised,      \* an exception left the call (the main loop's except clause catches it)
    sent,        \* kinds of the requests sent in this cycle of the main loop, in order
    lotIn,       \* arguments and platform answers of the last calculate_lot_size call
    lotOut       \* its result

vars == <<pc, positions, mp, requests, gs, direction, current_atr, et, orders,
          raised, sent, lotIn, lotOut>>

-----------------------------------------------------------------------------
(* Configuration, src/bot.py lines 8-27.  The multipliers 1.5, 2.0 and 1.0  *)
(* are kept exact as numerator / denominator.                               *)

ATR_MULTIPLIER_SL_NUM == 3
ATR_MULTIPLIER_SL_DEN == 2
ATR_MULTIPLIER_TP == 2
MAX_SPREAD_POINTS == 60
RSI_BUY_MIN == 50
RSI_BUY_MAX == 70
RSI_SELL_MAX == 50
RSI_SELL_MIN == 30
RISK_PERCENT == 1
BREAK_EVEN_ATR_MULT == 1
TRAILING_ATR_MULT == 1
\* get_market_data's default count
COUNT == 100
\* buffer = point * 10
BUFFER_POINTS == 10
\* the literal 0.01 of calculate_lot_size's early returns, in thousandths of a lot
FALLBACK_LOT == 10

-----------------------------------------------------------------------------
(* Bounds of the model.                                                     *)

MaxTickets == 2     \* tickets the platform hands out: 1..MaxTickets
MaxBid == 2         \* bid prices are 600 + 60 * (0..MaxBid)
MaxAtr == 1         \* defined positive ATR values are 60 * (1..MaxAtr)
MaxPoint == 1       \* point sizes are 1..MaxPoint
MaxBalance == 2     \* balances are 0 and 10000 * (1..MaxBalance)
MaxEma == 2         \* EMA values are 1..MaxEma

-----------------------------------------------------------------------------
(* Floats.                                                                  *)

NaN == 0 - 999999
INF == 999999

IsNaN(x) == x = NaN

\* IEEE comparisons: every ordered comparison with NaN is false, != is true
Lt(a, b) == ~IsNaN(a) /\ ~IsNaN(b) /\ a < b
Gt(a, b) == ~IsNaN(a) /\ ~IsNaN(b) /\ a > b
Le(a, b) == ~IsNaN(a) /\ ~IsNaN(b) /\ a <= b
Ge(a, b) == ~IsNaN(a) /\ ~IsNaN(b) /\ a >= b
Ne(a, b) == IsNaN(a) \/ IsNaN(b) \/ a # b

Add(a, b) == IF IsNaN(a) \/ IsNaN(b) THEN NaN ELSE a + b
Sub(a, b) == IF IsNaN(a) \/ IsNaN(b) THEN NaN ELSE a - b
Mul(a, k) == IF IsNaN(a) THEN NaN ELSE a * k
\* a * num / den for a multiplier num/den; the model's ATR values keep it whole
MulFrac(a, num, den) == IF IsNaN(a) THEN NaN ELSE (a * num) \div den
Abs(a) == IF IsNaN(a) THEN NaN ELSE IF a < 0 THEN 0 - a ELSE a

-----------------------------------------------------------------------------
(* What the platform can answer.                                            *)

Tickets == 1..MaxTickets

Bids == {600 + 60 * k : k \in 0..MaxBid}
\* ask - bid, in price units
Spreads == {0, 60, 120}
Points == 1..MaxPoint
AtrValues == {NaN, 0} \cup {60 * k : k \in 1..MaxAtr}
EmaValues == {NaN} \cup (1..MaxEma)
RsiValues == {NaN, 30, 31, 49, 50, 51, 69, 70, 75}

NoTick == [ok |-> FALSE, bid |-> 0, ask |-> 0]
Ticks == {[ok |-> TRUE, bid |-> b, ask |-> b + s] : b \in Bids, s \in Spreads}

\* mt5.copy_rates_from_pos: None, or at most count rows
NoRates == [isNone |-> TRUE, len |-> 0]
Rates == {NoRates} \cup {[isNone |-> FALSE, len |-> n] : n \in {0, COUNT - 1, COUNT}}

\* one row of the DataFrame get_market_data builds
Rows == [ema_fast : EmaValues, ema_slow : EmaValues, rsi : RsiValues, atr : AtrValues]
NoRow == [ema_fast |-> NaN, ema_slow |-> NaN, rsi |-> NaN, atr |-> NaN]
NoData == [ok |-> FALSE, closed |-> NoRow, forming |-> NoRow]

NoAccount == [ok |-> FALSE, balance |-> 0]
Balances == {0, 100} \cup {10000 * k : k \in 1..MaxBalance}
Accounts == {[ok |-> TRUE, balance |-> b] : b \in Balances}

NoSymbol == [ok |-> FALSE, point |-> 0, trade_tick_value |-> 0,
             trade_tick_size |-> 0, volume_min |-> 0]
\* volume_min in thousandths of a lot: 0.01, 0.012, 0.015 and 0.1
VolumeMins == {10, 12, 15, 100}
Symbols == [ok : {TRUE}, point : Points, trade_tick_value : {0, 1, 2},
            trade_tick_size : {0, 1}, volume_min : VolumeMins]

-----------------------------------------------------------------------------
(* get_market_data.  The DataFrame is kept as its last two rows: closed is  *)
(* the row of the last closed candle, index -2, and forming the row of the  *)
(* candle still moving, index -1.  ewm, diff, shift(1) and rolling look     *)
(* back only, so the forming candle's prices reach the forming row alone.   *)

\* the length test off by one
get_market_data_off_by_one(rates, closed, forming) ==
    IF rates.isNone \/ rates.len < COUNT - 1
    THEN NoData
    ELSE [ok |-> TRUE, closed |-> closed, forming |-> forming]

get_market_data(rates, closed, forming) ==
    IF rates.isNone \/ rates.len < COUNT
    THEN NoData
    ELSE [ok |-> TRUE, closed |-> closed, forming |-> forming]

\* df.iloc[i], read at index -1 whatever i is
iloc_last(df, i) == df.forming

\* df.iloc[i] for the two indices the frame keeps
iloc(df, i) == IF i = 0 - 2 THEN df.closed ELSE df.forming

-----------------------------------------------------------------------------
(* get_signal                                                               *)

trend_buy(m15_curr) == Gt(m15_curr.ema_fast, m15_curr.ema_slow)
entry_buy(m5_curr) == Gt(m5_curr.ema_fast, m5_curr.ema_slow)
\* the upper bound of the band taken inclusive
rsi_buy_inclusive(m5_curr) == Lt(RSI_BUY_MIN, m5_curr.rsi) /\ Le(m5_curr.rsi, RSI_BUY_MAX)
rsi_buy(m5_curr) == Lt(RSI_BUY_MIN, m5_curr.rsi) /\ Lt(m5_curr.rsi, RSI_BUY_MAX)

BuyCondition(m5_curr, m15_curr) ==
    trend_buy(m15_curr) /\ entry_buy(m5_curr) /\ rsi_buy(m5_curr)

trend_sell(m15_curr) == Lt(m15_curr.ema_fast, m15_curr.ema_slow)
entry_sell(m5_curr) == Lt(m5_curr.ema_fast, m5_curr.ema_slow)
rsi_sell(m5_curr) == Lt(RSI_SELL_MIN, m5_curr.rsi) /\ Lt(m5_curr.rsi, RSI_SELL_MAX)

\* the BUY test copied for SELL with only the lower RSI bound edited
SellConditionCopied(m5_curr, m15_curr) ==
    /\ Gt(m15_curr.ema_fast, m15_curr.ema_slow)
    /\ Gt(m5_curr.ema_fast, m5_curr.ema_slow)
    /\ Lt(RSI_SELL_MIN, m5_curr.rsi) /\ Lt(m5_curr.rsi, RSI_BUY_MAX)

SellCondition(m5_curr, m15_curr) ==
    trend_sell(m15_curr) /\ entry_sell(m5_curr) /\ rsi_sell(m5_curr)

get_signal(df_m5, df_m15) ==
    IF ~df_m5.ok \/ ~df_m15.ok
    THEN [direction |-> "NONE", atr |-> 0]
    ELSE LET m5_curr == iloc(df_m5, 0 - 2)
             m15_curr == iloc(df_m15, 0 - 2)
             atr_value == m5_curr.atr
         IN  IF BuyCondition(m5_curr, m15_curr)
             THEN [direction |-> "BUY", atr |-> atr_value]
             ELSE IF SellCondition(m5_curr, m15_curr)
                  THEN [direction |-> "SELL", atr |-> atr_value]
                  ELSE [direction |-> "NONE", atr |-> 0]

-----------------------------------------------------------------------------
(* calculate_lot_size.  A lot is the exact quotient num / den of thousandths *)
(* of a lot until round() makes it an integer.                               *)

\* Python's max(a, b) on the quotients a and the integer b: b only if b > a
MaxLot(num, den, volume_min) ==
    IF volume_min * den > num
    THEN [num |-> volume_min, den |-> 1]
    ELSE [num |-> num, den |-> den]

\* round(x, 2): to the nearest multiple of 10 thousandths.  A decimal tie
\* (x.xx5) has no exact double, the double that stands for it lies on either
\* side: tie_up says on which.
Round2(num, den, tie_up) ==
    LET h == num \div (10 * den)
        r == num - h * 10 * den
    IN  IF 2 * r < 10 * den THEN 10 * h
        ELSE IF 2 * r > 10 * den THEN 10 * (h + 1)
        ELSE IF tie_up THEN 10 * (h + 1) ELSE 10 * h

Returned(lot) == [raised |-> FALSE, lot |-> lot]
ZeroDivisionError == [raised |-> TRUE, lot |-> 0]

\* numpy_atr: atr is a numpy.float64 (division by zero gives inf or nan, with a
\* warning) and not a Python float (division by zero raises): which of the two
\* iloc[-2]['atr'] gives depends on the pandas at hand.
calculate_lot_size(atr, account_info, symbol_info, numpy_atr, tie_up) ==
    IF ~account_info.ok \/ ~symbol_info.ok
    THEN Returned(FALLBACK_LOT)
    ELSE LET balance == account_info.balance
             tick_value == symbol_info.trade_tick_value
             tick_size == symbol_info.trade_tick_size
             \* risk_amount / (sl_distance / tick_size * tick_value), * 1000
             num == balance * RISK_PERCENT * tick_size * ATR_MULTIPLIER_SL_DEN * 1000
             den == 100 * atr * ATR_MULTIPLIER_SL_NUM * tick_value
         IN  IF tick_value = 0 \/ tick_size = 0
             THEN Returned(FALLBACK_LOT)
             ELSE IF IsNaN(atr)
                  THEN Returned(NaN)
                  ELSE IF atr = 0
                       THEN IF ~numpy_atr THEN ZeroDivisionError
                            ELSE IF balance = 0 THEN Returned(NaN)
                                 ELSE Returned(INF)
                       ELSE LET m == MaxLot(num, den, symbol_info.volume_min)
                            IN  Returned(Round2(m.num, m.den, tie_up))

-----------------------------------------------------------------------------
(* manage_positions                                                         *)

NoPos == [type |-> "NONE", price_open |-> 0, sl |-> 0, tp |-> 0]
IsOpen(pos) == pos.type # "NONE"

\* mt5.positions_get: None, or the open positions, here by ticket
NoPositions == [ok |-> FALSE, at |-> [t \in Tickets |-> NoPos]]

current_price(pos, tick) == IF pos.type = "BUY" THEN tick.bid ELSE tick.ask

\* the request dictionaries of lines 247-252, 265-270 and 278-283; `via` is
\* the place that sends it, which the message printed after it names
\* "tp" left out of the dictionary: the platform reads a missing tp as 0
SltpRequest_without_tp(ticket, new_sl, tp, via) ==
    [action |-> "SLTP", position |-> ticket, sl |-> new_sl, tp |-> 0, via |-> via]

SltpRequest(ticket, new_sl, tp, via) ==
    [action |-> "SLTP", position |-> ticket, sl |-> new_sl, tp |-> tp, via |-> via]

\* the break-even section without its test of the current stop-loss
BreakEvenNewSl_unconditional(pos, buffer) ==
    IF pos.type = "BUY" THEN pos.price_open + buffer ELSE pos.price_open - buffer

\* the buffer taken on the loss side of the open price
BreakEvenNewSl_buffer_reversed(pos, buffer) ==
    IF pos.type = "BUY"
    THEN IF pos.sl < pos.price_open THEN pos.price_open - buffer ELSE pos.sl
    ELSE IF pos.sl > pos.price_open THEN pos.price_open + buffer ELSE pos.sl

\* new_sl of the break-even section
BreakEvenNewSl(pos, buffer) ==
    IF pos.type = "BUY"
    THEN IF pos.sl < pos.price_open THEN pos.price_open + buffer ELSE pos.sl
    ELSE IF pos.sl > pos.price_open THEN pos.price_open - buffer ELSE pos.sl

BreakEvenRequests(ticket, pos, tick, point, atr) ==
    LET profit_distance == Abs(Sub(current_price(pos, tick), pos.price_open))
        buffer == point * BUFFER_POINTS
        break_even_trigger == Mul(atr, BREAK_EVEN_ATR_MULT)
        new_sl == BreakEvenNewSl(pos, buffer)
    IN  IF Ge(profit_distance, break_even_trigger) /\ Ne(new_sl, pos.sl)
        THEN <<SltpRequest(ticket, new_sl, pos.tp, "break_even")>>
        ELSE <<>>

\* new_sl of the trailing section
TrailingNewSl(pos, tick, atr) ==
    LET trail_distance == Mul(atr, TRAILING_ATR_MULT)
    IN  IF pos.type = "BUY"
        THEN Sub(current_price(pos, tick), trail_distance)
        ELSE Add(current_price(pos, tick), trail_distance)

\* the trailing section without its test that new_sl tightens the stop-loss
TrailingRequests_always(ticket, pos, tick, atr) ==
    LET new_sl == TrailingNewSl(pos, tick, atr)
    IN  IF pos.type = "BUY"
        THEN IF pos.sl >= pos.price_open /\ ~IsNaN(new_sl)
             THEN <<SltpRequest(ticket, new_sl, pos.tp, "trailing")>>
             ELSE <<>>
        ELSE IF pos.sl <= pos.price_open /\ ~IsNaN(new_sl)
             THEN <<SltpRequest(ticket, new_sl, pos.tp, "trailing")>>
             ELSE <<>>

\* the trailing section without its test that break-even is activated
TrailingRequests_before_break_even(ticket, pos, tick, atr) ==
    LET new_sl == TrailingNewSl(pos, tick, atr)
    IN  IF pos.type = "BUY"
        THEN IF Gt(new_sl, pos.sl)
             THEN <<SltpRequest(ticket, new_sl, pos.tp, "trailing")>>
             ELSE <<>>
        ELSE IF Lt(new_sl, pos.sl)
             THEN <<SltpRequest(ticket, new_sl, pos.tp, "trailing")>>
             ELSE <<>>

TrailingRequests(ticket, pos, tick, atr) ==
    LET new_sl == TrailingNewSl(pos, tick, atr)
    IN  IF pos.type = "BUY"
        THEN IF pos.sl >= pos.price_open /\ Gt(new_sl, pos.sl)
             THEN <<SltpRequest(ticket, new_sl, pos.tp, "trailing")>>
             ELSE <<>>
        ELSE IF pos.sl <= pos.price_open /\ Lt(new_sl, pos.sl)
             THEN <<SltpRequest(ticket, new_sl, pos.tp, "trailing")>>
             ELSE <<>>

\* the pass with sl assigned by the break-even section: the trailing section
\* reads the stop-loss just proposed
PositionRequests_sl_reassigned(ticket, pos, tick, point, atr) ==
    LET be == BreakEvenRequests(ticket, pos, tick, point, atr)
        moved == IF be = <<>> THEN pos ELSE [pos EXCEPT !.sl = be[1].sl]
    IN  be \o TrailingRequests(ticket, moved, tick, atr)

\* one pass of the body of `for pos in positions`
PositionRequests(ticket, pos, tick, point, atr) ==
    BreakEvenRequests(ticket, pos, tick, point, atr)
        \o TrailingRequests(ticket, pos, tick, atr)

RECURSIVE LoopRequests(_, _, _, _, _)
LoopRequests(t, at, tick, point, atr) ==
    IF t > MaxTickets THEN <<>>
    ELSE (IF IsOpen(at[t]) THEN PositionRequests(t, at[t], tick, point, atr) ELSE <<>>)
             \o LoopRequests(t + 1, at, tick, point, atr)

\* the requests manage_positions sends, in order
manage_positions(posns, symbol_info, tick, df) ==
    IF ~posns.ok \/ \A t \in Tickets : ~IsOpen(posns.at[t]) THEN <<>>
    ELSE IF ~symbol_info.ok \/ ~tick.ok THEN <<>>
    ELSE IF ~df.ok THEN <<>>
    ELSE LET atr == iloc(df, 0 - 2).atr
         IN  IF atr = 0 THEN <<>>
             ELSE LoopRequests(1, posns.at, tick, symbol_info.point, atr)

-----------------------------------------------------------------------------
(* execute_trade                                                            *)

OrderRequest(signal, atr, tick, lot) ==
    IF signal = "BUY"
    THEN [action |-> "DEAL", type |-> "BUY", volume |-> lot, price |-> tick.ask,
          sl |-> Sub(tick.ask, MulFrac(atr, ATR_MULTIPLIER_SL_NUM, ATR_MULTIPLIER_SL_DEN)),
          tp |-> Add(tick.ask, Mul(atr, ATR_MULTIPLIER_TP))]
    ELSE [action |-> "DEAL", type |-> "SELL", volume |-> lot, price |-> tick.bid,
          sl |-> Add(tick.bid, MulFrac(atr, ATR_MULTIPLIER_SL_NUM, ATR_MULTIPLIER_SL_DEN)),
          tp |-> Sub(tick.bid, Mul(atr, ATR_MULTIPLIER_TP))]

\* the ceiling itself refused
SpreadTooHigh_inclusive(tick, point) == (tick.ask - tick.bid) >= MAX_SPREAD_POINTS * point

SpreadTooHigh(tick, point) == (tick.ask - tick.bid) > MAX_SPREAD_POINTS * point

\* what execute_trade does: the order requests it sends and whether an
\* exception leaves it.  symbol_info is the answer to the call of line 129,
\* lot the result of calculate_lot_size, result the answer of order_send
\* ("NONE" for None).
execute_trade(signal, atr, tick, symbol_info, lot, result) ==
    IF ~tick.ok THEN [orders |-> <<>>, raised |-> FALSE]
    ELSE IF ~symbol_info.ok THEN [orders |-> <<>>, raised |-> TRUE]
    ELSE IF SpreadTooHigh(tick, symbol_info.point) THEN [orders |-> <<>>, raised |-> FALSE]
    ELSE IF lot.raised THEN [orders |-> <<>>, raised |-> TRUE]
    ELSE [orders |-> <<OrderRequest(signal, atr, tick, lot.lot)>>,
          raised |-> result = "NONE"]

-----------------------------------------------------------------------------
(* The platform.                                                            *)

\* order_send answers TRADE_RETCODE_DONE only to a request it can fill: a
\* finite positive volume and stops on the right sides of the price
PlatformFills(request) ==
    /\ request.volume > 0 /\ request.volume < INF
    /\ ~IsNaN(request.sl) /\ ~IsNaN(request.tp)
    /\ IF request.type = "BUY"
       THEN request.sl < request.price /\ request.price < request.tp
       ELSE request.tp < request.price /\ request.price < request.sl

Filled(request) ==
    [type |-> request.type, price_open |-> request.price,
     sl |-> request.sl, tp |-> request.tp]

FreeTickets(at) == {t \in Tickets : ~IsOpen(at[t])}
NextTicket(at) == CHOOSE t \in FreeTickets(at) : \A u \in FreeTickets(at) : t <= u

\* the positions after the platform has applied the accepted requests
RECURSIVE Applied(_, _, _)
Applied(at, reqs, accepted) ==
    IF reqs = <<>> THEN at
    ELSE LET r == Head(reqs)
             next == IF r.position \in accepted
                     THEN [at EXCEPT ![r.position].sl = r.sl]
                     ELSE at
         IN  Applied(next, Tail(reqs), accepted)

-----------------------------------------------------------------------------
(* The answers the platform gives inside the main loop.                     *)

LoopSymbols == {NoSymbol} \cup
    {s \in Symbols : s.trade_tick_value = 1 /\ s.trade_tick_size = 1 /\ s.volume_min = 10}
LoopAccounts == {NoAccount} \cup {a \in Accounts : a.balance = 100}
LoopEntryRows == {r \in Rows : r.rsi \in {49, 51} /\ ~IsNaN(r.ema_fast)
                                /\ ~IsNaN(r.ema_slow) /\ r.ema_fast # r.ema_slow}
LoopTrendRows == {r \in LoopEntryRows : r.rsi = 49 /\ r.atr = 0}
AtrRows == {[NoRow EXCEPT !.atr = a] : a \in AtrValues}
LoopRates == {r \in Rates : r.isNone \/ r.len >= COUNT - 1}
Short(rates) == rates.isNone \/ rates.len < COUNT
\* the forming rows of the main loop: its steps are taken with one forming row
\* for each fetch of get_signal and two for the fetch of manage_positions;
\* windows that differ in the forming row alone are compared under SpecWindow
LoopFormingAtrRows == {r \in AtrRows : r.atr # 0}
LoopFormingEntryRows == {r \in LoopEntryRows : r.rsi = 51 /\ r.atr = 0
                                               /\ r.ema_fast > r.ema_slow}
LoopFormingTrendRows == {r \in LoopTrendRows : r.ema_fast > r.ema_slow}
\* an answer of copy_rates_from_pos and, if it is long enough to have them, the
\* rows iloc[-2] and iloc[-1] computed from it
Fetches(rates, rows, formings) ==
    {[rates |-> r, closed |-> c, forming |-> f] :
        r \in {x \in rates : ~Short(x)}, c \in rows, f \in formings}
        \cup {[rates |-> r, closed |-> NoRow, forming |-> NoRow] :
                 r \in {x \in rates : Short(x)}}
\* what calculate_lot_size(atr) can return or raise inside the main loop
LoopLots(atr) ==
    {calculate_lot_size(atr, a, s, n, u) :
        a \in LoopAccounts, s \in LoopSymbols, n \in BOOLEAN, u \in BOOLEAN}

NoLocals == [ok |-> FALSE]

Init ==
    /\ pc = "manage"
    /\ positions = [t \in Tickets |-> NoPos]
    /\ mp = NoLocals
    /\ requests = <<>>
    /\ gs = NoLocals
    /\ direction = "NONE"
    /\ current_atr = 0
    /\ et = NoLocals
    /\ orders = <<>>
    /\ raised = FALSE
    /\ sent = <<>>
    /\ lotIn = NoLocals
    /\ lotOut = Returned(0)

\* manage_positions(), line 307, with the platform's quotes among ticks.  A
\* local is set only if the call gets as far as the line that assigns it.
ManagePositionsOn(ticks) ==
    /\ pc = "manage"
    /\ \E got \in BOOLEAN, symbol_info \in LoopSymbols, tick \in ticks \cup {NoTick},
          rates \in LoopRates, closed \in AtrRows, forming \in LoopFormingAtrRows :
          LET posns == IF got THEN [ok |-> TRUE, at |-> positions] ELSE NoPositions
              df == get_market_data(rates, closed, forming)
              reqs == manage_positions(posns, symbol_info, tick, df)
              line198 == posns.ok /\ \E t \in Tickets : IsOpen(posns.at[t])
              line207 == line198 /\ symbol_info.ok /\ tick.ok
          IN  \E accepted \in SUBSET {reqs[i].position : i \in 1..Len(reqs)} :
                 /\ mp' = [ok |-> TRUE,
                           positions |-> posns,
                           fetched |-> line207,
                           symbol_info |-> IF line198 THEN symbol_info ELSE NoSymbol,
                           tick |-> IF line198 THEN tick ELSE NoTick,
                           rates |-> IF line207 THEN rates ELSE NoRates,
                           df |-> IF line207 THEN df ELSE NoData]
                 /\ requests' = reqs
                 /\ positions' = Applied(positions, reqs, accepted)
                 /\ sent' = sent \o [i \in 1..Len(reqs) |-> "SLTP"]
    /\ pc' = "signal"
    /\ UNCHANGED <<gs, direction, current_atr, et, orders, raised, lotIn, lotOut>>

ManagePositions == ManagePositionsOn(Ticks)

\* direction, current_atr = get_signal(), line 308, and the branch of line 310
GetSignal ==
    /\ pc = "signal"
    /\ \E m5 \in Fetches(LoopRates, LoopEntryRows, LoopFormingEntryRows),
          m15 \in Fetches(LoopRates, LoopTrendRows, LoopFormingTrendRows) :
          LET df_m5 == get_market_data(m5.rates, m5.closed, m5.forming)
              df_m15 == get_market_data(m15.rates, m15.closed, m15.forming)
              signal == get_signal(df_m5, df_m15)
          IN  /\ gs' = [ok |-> TRUE, rates_m5 |-> m5.rates, rates_m15 |-> m15.rates,
                         df_m5 |-> df_m5, df_m15 |-> df_m15]
              /\ direction' = signal.direction
              /\ current_atr' = signal.atr
              /\ pc' = IF signal.direction # "NONE" THEN "trade" ELSE "sleep"
    /\ mp' = NoLocals
    /\ requests' = <<>>
    /\ UNCHANGED <<positions, et, orders, raised, sent, lotIn, lotOut>>

\* execute_trade(direction, current_atr), line 312, with the platform's quotes
\* among ticks; result is order_send's answer: "NONE" for None, "REJECTED" for
\* a retcode other than TRADE_RETCODE_DONE, "DONE" for an order filled
ExecuteTradeOn(ticks) ==
    /\ pc = "trade"
    /\ \E tick \in ticks \cup {NoTick}, symbol_info \in LoopSymbols,
          lot \in LoopLots(current_atr), result \in {"NONE", "REJECTED", "DONE"} :
             LET out == execute_trade(direction, current_atr, tick, symbol_info, lot, result)
                 done == out.orders # <<>> /\ result = "DONE"
             IN  /\ done => PlatformFills(out.orders[1]) /\ FreeTickets(positions) # {}
                 /\ et' = [ok |-> TRUE, tick |-> tick,
                           symbol_info |-> IF tick.ok THEN symbol_info ELSE NoSymbol]
                 /\ orders' = out.orders
                 /\ raised' = out.raised
                 /\ sent' = sent \o [i \in 1..Len(out.orders) |-> "DEAL"]
                 /\ positions' = IF done
                                 THEN [positions EXCEPT ![NextTicket(positions)] =
                                          Filled(out.orders[1])]
                                 ELSE positions
    /\ gs' = NoLocals
    /\ pc' = "sleep"
    /\ UNCHANGED <<mp, requests, direction, current_atr, lotIn, lotOut>>

ExecuteTrade == ExecuteTradeOn(Ticks)

\* the loop with manage_positions() called once, before `while True`
Sleep_without_manage ==
    /\ pc = "sleep"
    /\ pc' = "signal"
    /\ mp' = NoLocals
    /\ requests' = <<>>
    /\ gs' = NoLocals
    /\ direction' = "NONE"
    /\ current_atr' = 0
    /\ et' = NoLocals
    /\ orders' = <<>>
    /\ raised' = FALSE
    /\ sent' = <<>>
    /\ UNCHANGED <<positions, lotIn, lotOut>>

\* the loop with the try statement around `while True`: an exception ends it
Sleep_unless_raised ==
    /\ pc = "sleep"
    /\ ~raised
    /\ pc' = "manage"
    /\ mp' = NoLocals
    /\ requests' = <<>>
    /\ gs' = NoLocals
    /\ direction' = "NONE"
    /\ current_atr' = 0
    /\ et' = NoLocals
    /\ orders' = <<>>
    /\ raised' = FALSE
    /\ sent' = <<>>
    /\ UNCHANGED <<positions, lotIn, lotOut>>

\* time.sleep of lines 314, 317 and 321, and the next turn of `while True`
Sleep ==
    /\ pc = "sleep"
    /\ pc' = "manage"
    /\ mp' = NoLocals
    /\ requests' = <<>>
    /\ gs' = NoLocals
    /\ direction' = "NONE"
    /\ current_atr' = 0
    /\ et' = NoLocals
    /\ orders' = <<>>
    /\ raised' = FALSE
    /\ sent' = <<>>
    /\ UNCHANGED <<positions, lotIn, lotOut>>

\* the platform closes a position (its stop-loss or take-profit is hit, or the
\* user closes it) while the bot sleeps
PlatformClose ==
    /\ pc = "sleep"
    /\ \E t \in Tickets :
          /\ IsOpen(positions[t])
          /\ positions' = [positions EXCEPT ![t] = NoPos]
    /\ UNCHANGED <<pc, mp, requests, gs, direction, current_atr, et, orders, raised,
                   sent, lotIn, lotOut>>

Next == ManagePositions \/ GetSignal \/ ExecuteTrade \/ Sleep \/ PlatformClose

Spec == Init /\ [][Next]_vars

-----------------------------------------------------------------------------
(* The main loop as it runs: the interpreter goes on to the next statement,  *)
(* and every platform call and every time.sleep returns.  The quotes here   *)
(* have one bid price, with every spread.                                   *)

FairTicks == {tick \in Ticks : tick.bid = 600}

\* a step of the loop itself
LoopStep ==
    ManagePositionsOn(FairTicks) \/ GetSignal \/ ExecuteTradeOn(FairTicks) \/ Sleep

FairNext == LoopStep \/ PlatformClose

FairSpec == Init /\ [][FairNext]_vars /\ WF_vars(LoopStep)

-----------------------------------------------------------------------------
(* get_signal on its own: the two windows are drawn, one call evaluates     *)
(* them.                                                                    *)

TrendRows == {r \in Rows : r.atr = 0}
\* the forming rows get_signal meets on its own: undefined, bullish and bearish
FormingRows == {NoRow} \cup {r \in Rows : r.rsi \in {49, 51} /\ r.atr = 60
                                       /\ r.ema_fast = 1 /\ r.ema_slow = 2}
FormingTrendRows == {r \in TrendRows : r.rsi = 49 /\ ~IsNaN(r.ema_fast)
                                        /\ ~IsNaN(r.ema_slow) /\ r.ema_fast # r.ema_slow}

InitSignal ==
    /\ pc = "signal"
    /\ \E m5 \in Fetches(Rates, Rows, FormingRows),
          m15 \in Fetches(Rates, TrendRows, FormingTrendRows) :
          gs = [ok |-> FALSE, rates_m5 |-> m5.rates, rates_m15 |-> m15.rates,
                df_m5 |-> get_market_data(m5.rates, m5.closed, m5.forming),
                df_m15 |-> get_market_data(m15.rates, m15.closed, m15.forming)]
    /\ positions = [t \in Tickets |-> NoPos]
    /\ mp = NoLocals
    /\ requests = <<>>
    /\ direction = "NONE"
    /\ current_atr = 0
    /\ et = NoLocals
    /\ orders = <<>>
    /\ raised = FALSE
    /\ sent = <<>>
    /\ lotIn = NoLocals
    /\ lotOut = Returned(0)

EvalSignal ==
    /\ pc = "signal"
    /\ ~gs.ok
    /\ LET signal == get_signal(gs.df_m5, gs.df_m15)
       IN  /\ direction' = signal.direction
           /\ current_atr' = signal.atr
    /\ gs' = [gs EXCEPT !.ok = TRUE]
    /\ pc' = "signal_done"
    /\ UNCHANGED <<positions, mp, requests, et, orders, raised, sent, lotIn, lotOut>>

SpecSignal == InitSignal /\ [][EvalSignal]_vars

-----------------------------------------------------------------------------
(* manage_positions on its own, and with get_signal on its own the two      *)
(* readers of a window: the positions, the quotes and the window are drawn, *)
(* one call evaluates them.                                                 *)

\* one open position, below, at and above its open price with its stop-loss
WindowPositions ==
    {[t \in Tickets |-> IF t = 1 THEN pos ELSE NoPos] :
        pos \in [type : {"BUY", "SELL"}, price_open : {660},
                 sl : {600, 650, 670, 720}, tp : {0}]}

InitManage ==
    /\ pc = "positions"
    /\ \E at \in WindowPositions, symbol_info \in LoopSymbols \ {NoSymbol},
          tick \in Ticks, rates \in Rates, closed \in AtrRows, forming \in AtrRows :
          mp = [ok |-> FALSE,
                positions |-> [ok |-> TRUE, at |-> at],
                fetched |-> TRUE,
                symbol_info |-> symbol_info,
                tick |-> tick,
                rates |-> rates,
                df |-> get_market_data(rates, closed, forming)]
    /\ positions = [t \in Tickets |-> NoPos]
    /\ requests = <<>>
    /\ gs = NoLocals
    /\ direction = "NONE"
    /\ current_atr = 0
    /\ et = NoLocals
    /\ orders = <<>>
    /\ raised = FALSE
    /\ sent = <<>>
    /\ lotIn = NoLocals
    /\ lotOut = Returned(0)

EvalManage ==
    /\ pc = "positions"
    /\ ~mp.ok
    /\ requests' = manage_positions(mp.positions, mp.symbol_info, mp.tick, mp.df)
    /\ mp' = [mp EXCEPT !.ok = TRUE]
    /\ pc' = "positions_done"
    /\ UNCHANGED <<positions, gs, direction, current_atr, et, orders, raised, sent,
                   lotIn, lotOut>>

InitWindow == InitSignal \/ InitManage

SpecWindow == InitWindow /\ [][EvalSignal \/ EvalManage]_vars

-----------------------------------------------------------------------------
(* calculate_lot_size on its own: the argument and the platform's answers   *)
(* are drawn, one call evaluates them.                                      *)

\* 200 is the ATR 2.0 of a symbol whose tick size 0.01 is the price unit
LotAtrValues == AtrValues \cup {200}

InitLot ==
    /\ pc = "lot"
    /\ lotIn \in [ok : {TRUE}, atr : LotAtrValues,
                  account_info : Accounts \cup {NoAccount},
                  symbol_info : Symbols \cup {NoSymbol},
                  numpy_atr : BOOLEAN, tie_up : BOOLEAN]
    /\ lotOut = Returned(0)
    /\ positions = [t \in Tickets |-> NoPos]
    /\ mp = NoLocals
    /\ requests = <<>>
    /\ gs = NoLocals
    /\ direction = "NONE"
    /\ current_atr = 0
    /\ et = NoLocals
    /\ orders = <<>>
    /\ raised = FALSE
    /\ sent = <<>>

EvalLot ==
    /\ pc = "lot"
    /\ lotOut' = calculate_lot_size(lotIn.atr, lotIn.account_info, lotIn.symbol_info,
                                    lotIn.numpy_atr, lotIn.tie_up)
    /\ pc' = "lot_done"
    /\ UNCHANGED <<positions, mp, requests, gs, direction, current_atr, et, orders,
                   raised, sent, lotIn>>

SpecLot == InitLot /\ [][EvalLot]_vars

-----------------------------------------------------------------------------
(* Claims about calculate_lot_size, under SpecLot.                          *)

LotFinite(lot) == ~IsNaN(lot) /\ lot # INF

\* C2: for every balance >= 0, ATR >= 0, tick value, tick size and minimum
\* volume > 0, with account and symbol info present or missing,
\* calculate_lot_size returns a finite lot that is >= the broker's minimum
\* volume (known whenever symbol info is present) and never zero or negative.
C2_LotAtLeastMinimum ==
    (pc = "lot_done" /\ ~IsNaN(lotIn.atr))
        => /\ ~lotOut.raised
           /\ LotFinite(lotOut.lot)
           /\ lotOut.lot > 0
           /\ lotIn.symbol_info.ok => lotOut.lot >= lotIn.symbol_info.volume_min

\* Python's max on two integers
Max(a, b) == IF b > a THEN b ELSE a

\* C3: with account and symbol info present, tick value and tick size not 0
\* and ATR > 0, the lot is riskAmount / (slDistance / tickSize * tickValue)
\* rounded to 2 decimals first and raised to minimumVolume second.
C3_RoundThenClamp ==
    (/\ pc = "lot_done"
     /\ lotIn.account_info.ok /\ lotIn.symbol_info.ok
     /\ lotIn.symbol_info.trade_tick_value # 0 /\ lotIn.symbol_info.trade_tick_size # 0
     /\ Gt(lotIn.atr, 0))
        => LET num == lotIn.account_info.balance * RISK_PERCENT
                        * lotIn.symbol_info.trade_tick_size * ATR_MULTIPLIER_SL_DEN * 1000
               den == 100 * lotIn.atr * ATR_MULTIPLIER_SL_NUM
                        * lotIn.symbol_info.trade_tick_value
           IN  lotOut = Returned(Max(Round2(num, den, lotIn.tie_up),
                                     lotIn.symbol_info.volume_min))

-----------------------------------------------------------------------------
(* Claims about get_signal, under SpecSignal.                               *)

Defined(row) ==
    ~IsNaN(row.ema_fast) /\ ~IsNaN(row.ema_slow) /\ ~IsNaN(row.rsi) /\ ~IsNaN(row.atr)

\* C4: for every pair of entry/trend snapshots, defined or undefined, the Buy
\* condition and the Sell condition get_signal evaluates are never both true.
C4_BuySellExclusive ==
    ~(/\ BuyCondition(gs.df_m5.closed, gs.df_m15.closed)
      /\ SellCondition(gs.df_m5.closed, gs.df_m15.closed))

C4_Witness ==
    /\ pc = "signal_done"
    /\ direction = "BUY"
    /\ BuyCondition(gs.df_m5.closed, gs.df_m15.closed)

\* C5: with both windows fetched and all indicators defined, get_signal
\* returns BUY exactly when trend fast > slow, entry fast > slow and
\* 50 < rsi < 70, SELL exactly when both comparisons are reversed and
\* 30 < rsi < 50, and NONE in every other case.
C5_SignalRule ==
    (/\ pc = "signal_done"
     /\ gs.df_m5.ok /\ gs.df_m15.ok
     /\ Defined(gs.df_m5.closed) /\ Defined(gs.df_m15.closed))
        => LET entry == gs.df_m5.closed
               trend == gs.df_m15.closed
               buy == /\ trend.ema_fast > trend.ema_slow
                      /\ entry.ema_fast > entry.ema_slow
                      /\ 50 < entry.rsi /\ entry.rsi < 70
               sell == /\ trend.ema_fast < trend.ema_slow
                       /\ entry.ema_fast < entry.ema_slow
                       /\ 30 < entry.rsi /\ entry.rsi < 50
           IN  /\ direction = "BUY" <=> buy
               /\ direction = "SELL" <=> sell
               /\ direction = "NONE" <=> (~buy /\ ~sell)

\* bullish EMAs on both timeframes and an entry RSI of 70: NONE
C5_Witness ==
    /\ pc = "signal_done"
    /\ gs.df_m5.ok /\ gs.df_m15.ok
    /\ Defined(gs.df_m5.closed) /\ Defined(gs.df_m15.closed)
    /\ gs.df_m15.closed.ema_fast > gs.df_m15.closed.ema_slow
    /\ gs.df_m5.closed.ema_fast > gs.df_m5.closed.ema_slow
    /\ gs.df_m5.closed.rsi = 70
    /\ direction = "NONE"

\* C6: if the entry timeframe's ATR of the last closed candle is undefined,
\* get_signal returns NONE with atr = 0: it never returns BUY or SELL together
\* with an undefined ATR.
C6_UndefinedAtrGivesNone ==
    (pc = "signal_done" /\ gs.df_m5.ok /\ gs.df_m15.ok /\ IsNaN(gs.df_m5.closed.atr))
        => direction = "NONE" /\ current_atr = 0

-----------------------------------------------------------------------------
(* Claims about manage_positions and the main loop, under Spec.             *)

\* the position a request of the running call names, as read at line 194
Snapshot(r) == mp.positions.at[r.position]

AtBreakEven(pos) ==
    IF pos.type = "BUY" THEN pos.sl >= pos.price_open ELSE pos.sl <= pos.price_open

Proposals == {requests[i] : i \in 1..Len(requests)}

ProposalsTighten ==
    \A r \in Proposals :
        IF Snapshot(r).type = "BUY"
        THEN Gt(r.sl, Snapshot(r).sl)
        ELSE Lt(r.sl, Snapshot(r).sl)

StopLossTightens ==
    \A t \in Tickets :
        (IsOpen(positions[t]) /\ IsOpen(positions'[t]))
            => IF positions[t].type = "BUY"
               THEN positions'[t].sl >= positions[t].sl
               ELSE positions'[t].sl <= positions[t].sl

\* C1: every stop-loss manage_positions proposes for a long position is
\* strictly greater than that position's stop-loss at the start of the cycle,
\* and strictly lower for a short one; so, whichever proposals the platform
\* applies, the stop-loss of an open long position never decreases and that
\* of an open short position never increases.
C1_MonotonicTightening == []ProposalsTighten /\ [][StopLossTightens]_vars

\* a trailing update of a long position has been sent and applied
C1_Witness ==
    \E r \in Proposals :
        /\ r.via = "trailing"
        /\ Snapshot(r).type = "BUY"
        /\ positions[r.position].sl = r.sl

\* C7, as claimed, for the trend timeframe: in a cycle in which the platform
\* returns no candles or fewer than count for that timeframe (and enough for
\* the entry timeframe), get_signal returns (NONE, 0) and manage_positions
\* has sent no stop-loss update.
C7_ShortWindowStopsCycle ==
    (gs.ok /\ Short(gs.rates_m15) /\ ~Short(gs.rates_m5))
        => /\ direction = "NONE" /\ current_atr = 0
           /\ \A i \in 1..Len(sent) : sent[i] # "SLTP"

\* C7, amended: a get_market_data call that is given no candles or fewer than
\* count reports no data; manage_positions sends no update when that is its
\* own fetch, get_signal returns (NONE, 0) when it is either of its fetches.
C7_ShortWindowStopsCaller ==
    /\ (mp.ok /\ mp.fetched /\ Short(mp.rates))
           => ~mp.df.ok /\ requests = <<>>
    /\ (gs.ok /\ (Short(gs.rates_m5) \/ Short(gs.rates_m15)))
           => /\ ~gs.df_m5.ok \/ ~gs.df_m15.ok
              /\ direction = "NONE" /\ current_atr = 0

\* manage_positions got fewer candles than count while a position was open
C7_Witness ==
    /\ mp.ok /\ mp.fetched
    /\ ~mp.rates.isNone /\ mp.rates.len = COUNT - 1
    /\ requests = <<>>

\* C8: whatever external data is unavailable, no call of the cycle raises.
C8_NeverRaises == ~raised

\* C9: manage_positions sends no break-even update for a position that is at
\* break-even when the call reads it, whatever the price and the ATR.
C9_BreakEvenIdempotent ==
    \A r \in Proposals : r.via = "break_even" => ~AtBreakEven(Snapshot(r))

\* a position moved to break-even earlier is read again with the price still
\* at least one ATR away from its open price, and no break-even update is sent
C9_Witness ==
    /\ mp.ok /\ mp.df.ok
    /\ \E t \in Tickets :
          LET pos == mp.positions.at[t]
          IN  /\ IsOpen(pos)
              /\ pos.sl \in {pos.price_open + BUFFER_POINTS * mp.symbol_info.point,
                             pos.price_open - BUFFER_POINTS * mp.symbol_info.point}
              /\ AtBreakEven(pos)
              /\ Gt(mp.df.closed.atr, 0)
              /\ Ge(Abs(current_price(pos, mp.tick) - pos.price_open), mp.df.closed.atr)
              /\ \A r \in Proposals : r.position = t => r.via # "break_even"

\* C10: every stop-loss update request carries the ticket of an open position
\* of the snapshot, that position's take-profit, and the stop-loss computed
\* from that position's open price or from the price current for its type.
C10_RequestKeepsTakeProfit ==
    \A r \in Proposals :
        LET pos == Snapshot(r)
            buffer == BUFFER_POINTS * mp.symbol_info.point
        IN  /\ IsOpen(pos)
            /\ r.tp = pos.tp
            /\ r.via = "break_even"
                   => r.sl = IF pos.type = "BUY" THEN pos.price_open + buffer
                                                 ELSE pos.price_open - buffer
            /\ r.via = "trailing"
                   => r.sl = IF pos.type = "BUY" THEN mp.tick.bid - mp.df.closed.atr
                                                 ELSE mp.tick.ask + mp.df.closed.atr

\* one call sends updates for two positions that have different take-profits
C10_Witness ==
    \E r \in Proposals, q \in Proposals :
        r.position # q.position /\ r.tp # q.tp

-----------------------------------------------------------------------------
(* Claims about the order of a cycle, under Spec.                           *)

\* the requests of the cycle so far: every stop-loss update before every order
UpdatesBeforeOrders ==
    \A i \in 1..Len(sent), j \in 1..Len(sent) :
        (sent[i] = "DEAL" /\ sent[j] = "SLTP") => j < i

\* one step of the loop: get_signal is evaluated only by the step that follows
\* the return of manage_positions, a stop-loss update is sent only by
\* manage_positions and an order only after get_signal has returned
ManageThenSignalThenTrade ==
    /\ (gs'.ok /\ ~gs.ok) => (pc = "signal" /\ mp.ok)
    /\ (pc' = "signal" /\ pc # "signal") => (pc = "manage" /\ mp'.ok)
    /\ (Len(sent') > Len(sent) /\ sent'[Len(sent')] = "SLTP") => pc = "manage"
    /\ (Len(sent') > Len(sent) /\ sent'[Len(sent')] = "DEAL")
           => (pc = "trade" /\ gs.ok /\ requests' = requests)

\* C11: in every iteration of the main loop manage_positions has sent all its
\* stop-loss updates and returned before get_signal is evaluated and before an
\* order request is sent: no order request precedes a stop-loss update of the
\* same cycle.
C11_ManageBeforeSignal == []UpdatesBeforeOrders /\ [][ManageThenSignalThenTrade]_vars

\* a cycle in which a stop-loss update and then an order have been sent
C11_Witness ==
    /\ Len(sent) >= 2
    /\ sent[1] = "SLTP"
    /\ sent[Len(sent)] = "DEAL"

-----------------------------------------------------------------------------
(* Claims about execute_trade, under Spec.                                  *)

\* the call of this cycle has answers from symbol_info_tick and symbol_info
Quoted == et.ok /\ et.tick.ok /\ et.symbol_info.ok

SpreadCeiling ==
    /\ Len(orders) <= 1
    /\ (et.ok /\ ~et.tick.ok) => (orders = <<>> /\ ~raised)
    /\ (Quoted /\ et.tick.ask - et.tick.bid > MAX_SPREAD_POINTS * et.symbol_info.point)
           => (orders = <<>> /\ ~raised)
    \* at the ceiling the call goes on to calculate_lot_size and order_send
    /\ (Quoted /\ et.tick.ask - et.tick.bid = MAX_SPREAD_POINTS * et.symbol_info.point)
           => (Len(orders) = 1 \/ (raised /\ current_atr = 0))

\* C12: execute_trade sends no order request in a cycle in which the spread
\* (ask - bid) / point is greater than MAX_SPREAD_POINTS or the tick is
\* unavailable, and it is not called again before the sleep; a spread equal
\* to the ceiling does not stop the call.
C12_SpreadGuard == []SpreadCeiling /\ [][pc = "trade" => pc' = "sleep"]_vars

\* an order sent at a spread of exactly MAX_SPREAD_POINTS points
C12_Witness ==
    /\ Quoted
    /\ et.tick.ask - et.tick.bid = MAX_SPREAD_POINTS * et.symbol_info.point
    /\ Len(orders) = 1

-----------------------------------------------------------------------------
(* Claims about the windows, under SpecWindow.                              *)

\* the frame with another forming row
WithForming(df, row) == IF df.ok THEN [df EXCEPT !.forming = row] ELSE df

\* get_signal's results are those of every pair of windows with the same
\* closed rows
SignalIgnoresForming ==
    (pc = "signal_done")
        => \A f5 \in FormingRows, f15 \in FormingTrendRows :
              get_signal(WithForming(gs.df_m5, f5), WithForming(gs.df_m15, f15))
                  = [direction |-> direction, atr |-> current_atr]

\* manage_positions' requests are those of every window with the same closed row
ManageIgnoresForming ==
    (pc = "positions_done")
        => \A f \in AtrRows :
              manage_positions(mp.positions, mp.symbol_info, mp.tick,
                               WithForming(mp.df, f)) = requests

\* C13: two windows that agree on every candle but the last, still forming
\* one give the same signal direction and ATR from get_signal and the same
\* stop-loss proposals from manage_positions.
C13_FormingCandleIgnored == SignalIgnoresForming /\ ManageIgnoresForming

\* BUY from the closed rows of windows whose forming rows are bearish with
\* another ATR
C13_Witness ==
    /\ pc = "signal_done"
    /\ direction = "BUY"
    /\ SellCondition(gs.df_m5.forming, gs.df_m15.forming)
    /\ current_atr # gs.df_m5.forming.atr

-----------------------------------------------------------------------------
(* Claims about the break-even and trailing sections, under Spec.           *)

\* the price has moved in the position's favour by the break-even distance
FavourableByTrigger(pos, tick, atr) ==
    IF pos.type = "BUY"
    THEN Ge(Sub(tick.bid, pos.price_open), Mul(atr, BREAK_EVEN_ATR_MULT))
    ELSE Ge(Sub(pos.price_open, tick.ask), Mul(atr, BREAK_EVEN_ATR_MULT))

\* C14: a break-even update is sent for a long position only if
\* bid - open price >= atr * BREAK_EVEN_ATR_MULT and for a short one only if
\* open price - ask >= atr * BREAK_EVEN_ATR_MULT; a price that has moved
\* against the position never triggers one.
C14_BreakEvenOnlyInFavour ==
    \A r \in Proposals :
        r.via = "break_even"
            => FavourableByTrigger(Snapshot(r), mp.tick, mp.df.closed.atr)

\* the call has reached `for pos in positions`: positions, symbol info, tick
\* and data were there and the ATR was not 0
InLoop == mp.ok /\ mp.df.ok /\ mp.df.closed.atr # 0

\* the break-even transition is due for a position of the snapshot
BreakEvenDue(pos) ==
    /\ IsOpen(pos)
    /\ ~AtBreakEven(pos)
    /\ Ge(Abs(Sub(current_price(pos, mp.tick), pos.price_open)),
          Mul(mp.df.closed.atr, BREAK_EVEN_ATR_MULT))

RequestsFor(t) == {i \in 1..Len(requests) : requests[i].position = t}

\* exactly one update, to open price +/- 10 points, for every position due
BreakEvenSent ==
    \A t \in Tickets :
        LET pos == mp.positions.at[t]
            buffer == BUFFER_POINTS * mp.symbol_info.point
        IN  BreakEvenDue(pos)
                => /\ Cardinality(RequestsFor(t)) = 1
                   /\ \A i \in RequestsFor(t) :
                         requests[i].sl = IF pos.type = "BUY"
                                          THEN pos.price_open + buffer
                                          ELSE pos.price_open - buffer

\* C15, as claimed: whenever the current price and the ATR are known,
\* |current price - open price| >= atr * BREAK_EVEN_ATR_MULT and the position
\* is not at break-even, manage_positions sends exactly one update, with
\* stop-loss open price + 10 points for a long and open price - 10 points for
\* a short.
C15_BreakEvenWhenever == (mp.ok /\ mp.df.ok) => BreakEvenSent

BreakEvenSentOnce == InLoop => BreakEvenSent

\* a step of the loop: a break-even update the platform applies puts the
\* position at break-even, and an open position at break-even stays there
BreakEvenApplied ==
    /\ \A i \in 1..Len(requests') :
          LET r == requests'[i]
          IN  (requests' # requests /\ r.via = "break_even"
                  /\ positions'[r.position].sl = r.sl)
                  => AtBreakEven(positions'[r.position])
    /\ \A t \in Tickets :
          (IsOpen(positions[t]) /\ AtBreakEven(positions[t]) /\ IsOpen(positions'[t]))
              => AtBreakEven(positions'[t])

\* C15, amended: whenever the ATR is not 0, |current price - open price| >=
\* atr * BREAK_EVEN_ATR_MULT and the position is not at break-even,
\* manage_positions sends exactly one update for it, with stop-loss open
\* price + 10 points for a long and open price - 10 points for a short; once
\* the platform applies it the position is at break-even and is read so in
\* the next cycle.
C15_BreakEvenTransition == []BreakEvenSentOnce /\ [][BreakEvenApplied]_vars

\* a break-even update sent after a favourable move and applied
C15_Witness ==
    \E r \in Proposals :
        /\ r.via = "break_even"
        /\ FavourableByTrigger(Snapshot(r), mp.tick, mp.df.closed.atr)
        /\ positions[r.position].sl = r.sl
        /\ AtBreakEven(positions[r.position])

\* C16: a trailing update, to current price - atr * TRAILING_ATR_MULT for a
\* long and current price + atr * TRAILING_ATR_MULT for a short, is sent only
\* for a position whose stop-loss as read at the start of the cycle is at
\* break-even; a position read below break-even gets none, also not in the
\* cycle in which its break-even update is sent.
C16_TrailingOnlyAtBreakEven ==
    \A r \in Proposals :
        /\ r.via = "trailing"
               => /\ AtBreakEven(Snapshot(r))
                  /\ r.sl = IF Snapshot(r).type = "BUY"
                            THEN mp.tick.bid - mp.df.closed.atr * TRAILING_ATR_MULT
                            ELSE mp.tick.ask + mp.df.closed.atr * TRAILING_ATR_MULT
        /\ r.via = "break_even"
               => \A q \in Proposals : q.position = r.position => q.via # "trailing"

\* a short position moved to break-even in an earlier cycle is trailed
C16_Witness ==
    \E r \in Proposals :
        /\ r.via = "trailing"
        /\ Snapshot(r).type = "SELL"
        /\ Snapshot(r).sl = Snapshot(r).price_open - BUFFER_POINTS * mp.symbol_info.point

-----------------------------------------------------------------------------
(* Claims about the progress of the main loop, under FairSpec.              *)

\* manage_positions of a cycle has just returned
Managed == pc = "signal" /\ mp.ok /\ ~raised

\* C17: the main loop never stops: an exception raised in a cycle is caught
\* and, after success or failure alike, the loop sleeps and starts a next
\* cycle, in which manage_positions is run again.
C17_LoopNeverStops == []<>Managed /\ (raised ~> Managed)

\* an exception of execute_trade has been caught and the loop sleeps
C17_Witness == raised /\ pc = "sleep"

\* C18: one manage_positions call sends at most one stop-loss update for each
\* open position: the break-even update and the trailing update are never
\* both sent for the same position.
C18_OneUpdatePerPosition ==
    \A i \in 1..Len(requests), j \in 1..Len(requests) :
        requests[i].position = requests[j].position => i = j

\* one call sends a break-even update for one position and a trailing update
\* for another
C18_Witness ==
    \E i \in 1..Len(requests), j \in 1..Len(requests) :
        /\ requests[i].position # requests[j].position
        /\ requests[i].via = "break_even"
        /\ requests[j].via = "trailing"

\* C19: every stop-loss manage_positions proposes, with an ATR > 0, is on the
\* loss side of the current price: strictly below the current bid for a long
\* position and strictly above the current ask for a short one.
C19_StopOnLossSide ==
    \A r \in Proposals :
        Gt(mp.df.closed.atr, 0)
            => IF Snapshot(r).type = "BUY"
               THEN Lt(r.sl, mp.tick.bid)
               ELSE Gt(r.sl, mp.tick.ask)

-----------------------------------------------------------------------------
(* Claims about the order request, under Spec.                              *)

\* C20: every order request execute_trade sends, for whatever direction and
\* ATR get_signal has returned, is a BUY priced at the ask with sl < price <
\* tp or a SELL priced at the bid with tp < price < sl, the stop-loss at 1.5 *
\* atr and the take-profit at 2.0 * atr from the price.
C20_OrderStopsOnRightSides ==
    \A i \in 1..Len(orders) :
        LET o == orders[i]
            sl_distance == MulFrac(current_atr, ATR_MULTIPLIER_SL_NUM, ATR_MULTIPLIER_SL_DEN)
            tp_distance == Mul(current_atr, ATR_MULTIPLIER_TP)
        IN  IF o.type = "BUY"
            THEN /\ direction = "BUY" /\ o.price = et.tick.ask
                 /\ Lt(o.sl, o.price) /\ Lt(o.price, o.tp)
                 /\ Sub(o.price, o.sl) = sl_distance /\ ~IsNaN(sl_distance)
                 /\ Sub(o.tp, o.price) = tp_distance /\ ~IsNaN(tp_distance)
            ELSE /\ direction = "SELL" /\ o.price = et.tick.bid
                 /\ Lt(o.tp, o.price) /\ Lt(o.price, o.sl)
                 /\ Sub(o.sl, o.price) = sl_distance /\ ~IsNaN(sl_distance)
                 /\ Sub(o.price, o.tp) = tp_distance /\ ~IsNaN(tp_distance)

====
